---------------------------- MODULE Spec2Model ----------------------------
(***************************************************************************)
(* Model of the scoring/ranking core of formula1Sonified:                  *)
(*   modules/utils.py     convert_time_to_seconds,                         *)
(*                        convert_seconds_to_time_str                      *)
(*   modules/analysis.py  add_position_gaps, build_driver_table,           *)
(*                        top_races_for_driver                             *)
(*   modules/telemetry.py analyze_topN_rich                                *)
(*                                                                         *)
(* Text is a sequence of one-character strings.  A Python float is an      *)
(* exact decimal [n |-> mantissa, f |-> number of fractional digits],      *)
(* kept normalised (no trailing zero digit); None / NaN is the value Null. *)
(* IEEE rounding, infinities and the literals "inf"/"nan" are outside the  *)
(* model: the alphabets below hold no letter of them.                      *)
(***************************************************************************)
EXTENDS Integers, Sequences, FiniteSets, TLC

VARIABLES
    pc,          \* which call the run makes and whether it has returned
    time_str,    \* convert_time_to_seconds: the argument
    seconds,     \* convert_time_to_seconds: the returned value
    df_results,  \* add_position_gaps: the argument, a table (sequence of rows)
    gaps,        \* add_position_gaps: the returned table
    dfs,         \* top_races_for_driver: the dictionary of input tables
    args,        \* top_races_for_driver: driver_name, n_top, min_year, wins_only
    scored,      \* top_races_for_driver: the driver's rows with their score
    ranked,      \* top_races_for_driver: the same rows after sort_values
    top,         \* top_races_for_driver: the returned table
    built,       \* build_driver_table: the tables returned by the calls so far
    field,       \* build_driver_table: the table add_position_gaps returned
                 \* in the last call (the full field, before wins_only)
    topN,        \* analyze_topN_rich: the argument, None or a table of races
    provider,    \* analyze_topN_rich: what the telemetry source holds for each
                 \* row of topN (the outcome of _load_lap_and_circuit)
    corner_window_m, \* analyze_topN_rich: the argument of that name
    slow_thr_kph,    \* analyze_topN_rich: the argument of that name
    medium_thr_kph,  \* analyze_topN_rich: the argument of that name
    hairpin_thr_kph, \* analyze_topN_rich: the argument of that name
    complex_span_m,  \* analyze_topN_rich: the argument of that name
    idx,         \* analyze_topN_rich: the row of topN the loop is at
    out_rows,    \* analyze_topN_rich: the list out_rows
    seg,         \* analyze_topN_rich: the masks of the race analysed last
    result       \* analyze_topN_rich: the returned pair, or the exception raised

parseVars == <<time_str, seconds>>

gapVars == <<df_results, gaps>>

topVars == <<dfs, args, scored, ranked, top>>

buildVars == <<built, field>>

\* the knobs of analyze_topN_rich that classify and group the corners
knobVars == <<slow_thr_kph, medium_thr_kph, hairpin_thr_kph, complex_span_m>>

richVars == <<topN, provider, corner_window_m, idx, out_rows, seg, result, knobVars>>

vars == <<pc, time_str, seconds, df_results, gaps, dfs, args, scored, ranked, top,
          built, field, topN, provider, corner_window_m, idx, out_rows, seg, result,
          slow_thr_kph, medium_thr_kph, hairpin_thr_kph, complex_span_m>>

\* the value of the variables a run does not use
NoTables == [drivers |-> <<>>, results |-> <<>>, races |-> <<>>,
             status |-> <<>>, weather |-> <<>>]

NoArgs == [driver_name |-> <<>>, n_top |-> 0, min_year |-> 0, wins_only |-> FALSE]

IdleParse == time_str = <<>> /\ seconds = [n |-> 0, f |-> -1]   \* no text, NaN

IdleGaps == df_results = <<>> /\ gaps = <<>>

IdleTop ==
    dfs = NoTables /\ args = NoArgs /\ scored = <<>> /\ ranked = <<>> /\ top = <<>>

IdleBuild == built = <<>> /\ field = <<>>

NoSeg == [dist |-> <<>>, is_corner |-> <<>>, is_straight |-> <<>>,
          is_drs |-> <<>>, is_nondrs |-> <<>>,
          apex_by_corner |-> <<>>, slow_masks |-> <<>>, med_masks |-> <<>>,
          high_masks |-> <<>>, hairpin_masks |-> <<>>,
          is_slow |-> <<>>, is_med |-> <<>>, is_high |-> <<>>,
          is_hairpin |-> <<>>, is_complex |-> <<>>]

\* the knobs as the signature of analyze_topN_rich sets them
DefaultKnobs ==
    /\ slow_thr_kph = 120
    /\ medium_thr_kph = 170
    /\ hairpin_thr_kph = 80
    /\ complex_span_m = 300

NoResult == [raised |-> "", per_race |-> <<>>, overall |-> <<>>]

IdleRich ==
    /\ topN = [is_none |-> TRUE, rows |-> <<>>]
    /\ provider = <<>>
    /\ corner_window_m = 0
    /\ DefaultKnobs
    /\ idx = 0
    /\ out_rows = <<>>
    /\ seg = NoSeg
    /\ result = NoResult

-----------------------------------------------------------------------------
(* Exact decimals standing for Python floats.                              *)

Null == [n |-> 0, f |-> -1]

IsNull(x) == x.f < 0

RECURSIVE Pow10(_)
Pow10(k) == IF k <= 0 THEN 1 ELSE 10 * Pow10(k - 1)

RECURSIVE Dec(_, _)
Dec(n, f) ==
    IF f > 0 /\ n % 10 = 0 THEN Dec(n \div 10, f - 1) ELSE [n |-> n, f |-> f]

DecInt(i) == [n |-> i, f |-> 0]

MaxOf(a, b) == IF a >= b THEN a ELSE b

MinOf(a, b) == IF a <= b THEN a ELSE b

\* a + b, NaN when either operand is NaN
DecAdd(a, b) ==
    IF IsNull(a) \/ IsNull(b) THEN Null
    ELSE LET f == MaxOf(a.f, b.f)
         IN  Dec(a.n * Pow10(f - a.f) + b.n * Pow10(f - b.f), f)

DecNeg(a) == IF IsNull(a) THEN Null ELSE [n |-> 0 - a.n, f |-> a.f]

DecSub(a, b) == DecAdd(a, DecNeg(b))

DecMul(a, b) ==
    IF IsNull(a) \/ IsNull(b) THEN Null ELSE Dec(a.n * b.n, a.f + b.f)

\* a <= b on defined values; FALSE when either is NaN, as in IEEE comparison
DecLe(a, b) ==
    /\ ~IsNull(a)
    /\ ~IsNull(b)
    /\ LET f == MaxOf(a.f, b.f)
       IN  a.n * Pow10(f - a.f) <= b.n * Pow10(f - b.f)

DecLt(a, b) == DecLe(a, b) /\ a # b

-----------------------------------------------------------------------------
(* Python str operations used by convert_time_to_seconds.                  *)

Digits == {"0", "1", "2", "3", "4", "5", "6", "7", "8", "9"}

DigitVal(c) ==
    CASE c = "0" -> 0 [] c = "1" -> 1 [] c = "2" -> 2 [] c = "3" -> 3
      [] c = "4" -> 4 [] c = "5" -> 5 [] c = "6" -> 6 [] c = "7" -> 7
      [] c = "8" -> 8 [] c = "9" -> 9

\* the None object (pd.isna is true of it); no text equals it
NoneObj == <<"<None>">>

\* str.replace(ch, ''): every occurrence of ch is removed
RECURSIVE Replace(_, _)
Replace(s, ch) ==
    IF s = <<>> THEN <<>>
    ELSE IF Head(s) = ch THEN Replace(Tail(s), ch)
         ELSE <<Head(s)>> \o Replace(Tail(s), ch)

RECURSIVE LStrip(_)
LStrip(s) == IF s # <<>> /\ Head(s) = " " THEN LStrip(Tail(s)) ELSE s

RECURSIVE RStrip(_)
RStrip(s) ==
    IF s # <<>> /\ s[Len(s)] = " " THEN RStrip(SubSeq(s, 1, Len(s) - 1)) ELSE s

\* str.strip()
Strip(s) == RStrip(LStrip(s))

\* str.startswith(ch)
StartsWith(s, ch) == s # <<>> /\ Head(s) = ch

\* str.split(sep): the pieces between the separators, empty pieces kept
RECURSIVE Split(_, _)
Split(s, sep) ==
    IF \A i \in 1..Len(s) : s[i] # sep THEN <<s>>
    ELSE LET i == CHOOSE k \in 1..Len(s) :
                      s[k] = sep /\ \A j \in 1..(k - 1) : s[j] # sep
         IN  <<SubSeq(s, 1, i - 1)>> \o Split(SubSeq(s, i + 1, Len(s)), sep)

IsDigits(s) == s # <<>> /\ \A i \in 1..Len(s) : s[i] \in Digits

RECURSIVE NatVal(_)
NatVal(s) ==
    IF s = <<>> THEN 0 ELSE 10 * NatVal(SubSeq(s, 1, Len(s) - 1)) + DigitVal(s[Len(s)])

\* a token with its optional sign taken off: <<sign, rest>>
Unsigned(t) ==
    IF StartsWith(t, "-") THEN <<-1, Tail(t)>>
    ELSE IF StartsWith(t, "+") THEN <<1, Tail(t)>>
    ELSE <<1, t>>

\* int(tok): [ok, v]; ok is FALSE where Python raises ValueError
PyInt(tok) ==
    LET u == Unsigned(Strip(tok))
    IN  IF IsDigits(u[2]) THEN [ok |-> TRUE, v |-> u[1] * NatVal(u[2])]
        ELSE [ok |-> FALSE, v |-> 0]

\* float(tok): the decimal, or Null where Python raises ValueError
PyFloat(tok) ==
    LET u     == Unsigned(Strip(tok))
        parts == Split(u[2], ".")
        ip    == parts[1]
        fp    == IF Len(parts) = 2 THEN parts[2] ELSE <<>>
    IN  IF /\ Len(parts) <= 2
           /\ ip \o fp # <<>>
           /\ \A i \in 1..Len(ip) : ip[i] \in Digits
           /\ \A i \in 1..Len(fp) : fp[i] \in Digits
        THEN Dec(u[1] * (NatVal(ip) * Pow10(Len(fp)) + NatVal(fp)), Len(fp))
        ELSE Null

-----------------------------------------------------------------------------
(* utils.py: convert_time_to_seconds                                       *)

Sentinels == {<<"\\", "N">>, <<>>, <<"N", "o", "n", "e">>}

\* s = str(time_str).replace('+', '').strip()
Clean(t) == Strip(Replace(t, "+"))

\* (variant: the weights of hours and minutes exchanged)
PartsToSecondsSwapped(parts) ==
    IF Len(parts) = 1 THEN PyFloat(parts[1])
    ELSE IF Len(parts) = 2 THEN
        LET m == PyInt(parts[1]) sec == PyFloat(parts[2])
        IN  IF m.ok /\ ~IsNull(sec) THEN DecAdd(DecInt(m.v * 60), sec) ELSE Null
    ELSE IF Len(parts) = 3 THEN
        LET h == PyInt(parts[1]) m == PyInt(parts[2]) sec == PyFloat(parts[3])
        IN  IF h.ok /\ m.ok /\ ~IsNull(sec)
            THEN DecAdd(DecInt(h.v * 60 + m.v * 3600), sec) ELSE Null
    ELSE Null

\* the try block: one, two or three ':'-separated parts; more fall through
PartsToSeconds(parts) ==
    IF Len(parts) = 1 THEN PyFloat(parts[1])
    ELSE IF Len(parts) = 2 THEN
        LET m == PyInt(parts[1]) sec == PyFloat(parts[2])
        IN  IF m.ok /\ ~IsNull(sec) THEN DecAdd(DecInt(m.v * 60), sec) ELSE Null
    ELSE IF Len(parts) = 3 THEN
        LET h == PyInt(parts[1]) m == PyInt(parts[2]) sec == PyFloat(parts[3])
        IN  IF h.ok /\ m.ok /\ ~IsNull(sec)
            THEN DecAdd(DecInt(h.v * 3600 + m.v * 60), sec) ELSE Null
    ELSE Null

convert_time_to_seconds(t) ==
    IF t = NoneObj THEN Null
    ELSE LET s == Clean(t)
         IN  IF s \in Sentinels THEN Null ELSE PartsToSeconds(Split(s, ":"))

-----------------------------------------------------------------------------
(* Inputs of the time-parsing runs.                                        *)

MaxTextLen == 4

EnumChars == {"1", "2", ":", "+", "-", ".", " ", "L"}

RECURSIVE TextsOfLen(_)
TextsOfLen(k) ==
    IF k = 0 THEN {<<>>}
    ELSE {<<c>> \o t : c \in EnumChars, t \in TextsOfLen(k - 1)}

ShortTexts == UNION {TextsOfLen(k) : k \in 0..MaxTextLen}

\* decimal digits of a natural number, and the same zero-padded to width w
RECURSIVE NatStr(_)
NatStr(k) ==
    IF k < 10 THEN <<CHOOSE c \in Digits : DigitVal(c) = k>>
    ELSE NatStr(k \div 10) \o <<CHOOSE c \in Digits : DigitVal(c) = k % 10>>

RECURSIVE Pad(_, _)
Pad(k, w) == IF Len(NatStr(k)) >= w THEN NatStr(k) ELSE <<"0">> \o Pad(k, w - 1)

Spaces(k) == [i \in 1..k |-> " "]

FormHours   == {1, 2}
FormMinutes == {0, 1, 59}
FormSeconds == {0, 3, 23, 59}
FormMillis  == {0, 5, 456}

\* "S", "M:SS.mmm", "H:MM:SS.mmm" with the number of milliseconds each denotes
PlainForms ==
    {<<NatStr(s) \o <<".">> \o Pad(f, 3), 1000 * s + f>> :
        s \in FormSeconds, f \in FormMillis}
    \cup {<<NatStr(s), 1000 * s>> : s \in FormSeconds}
    \cup {<<NatStr(m) \o <<":">> \o Pad(s, 2) \o <<".">> \o Pad(f, 3),
            60000 * m + 1000 * s + f>> :
        m \in FormMinutes, s \in FormSeconds, f \in FormMillis}
    \cup {<<NatStr(h) \o <<":">> \o Pad(m, 2) \o <<":">> \o Pad(s, 2)
              \o <<".">> \o Pad(f, 3),
            3600000 * h + 60000 * m + 1000 * s + f>> :
        h \in FormHours, m \in FormMinutes, s \in FormSeconds, f \in FormMillis}

\* the same texts with an optional leading '+' and surrounding blanks
DecoratedForms ==
    {<<Spaces(l) \o (IF plus THEN <<"+">> ELSE <<>>) \o p[1] \o Spaces(r), p[2]>> :
        l \in 0..1, plus \in BOOLEAN, r \in 0..1, p \in PlainForms}

ExampleTexts ==
    { NoneObj,
      <<"\\", "N">>,
      <<"N", "o", "n", "e">>,
      <<" ", "\\", "N", " ">>,
      <<"+", "1", " ", "L", "a", "p">>,
      <<"1", ":", "1", ":", "1", ":", "1">>,
      <<"1", ".", "5", ":", "2", "0">>,
      <<"1", ":", "2", ".", "5", ":", "3">>,
      <<"1", ":", "x", "x">>,
      <<"1", "2", "+", "3", "4", ".", "5">>,
      <<"1", ":", "2", "+", "3">> }

ParseInputs == ShortTexts \cup {p[1] : p \in DecoratedForms} \cup ExampleTexts

InitParse ==
    /\ pc = "parse"
    /\ time_str \in ParseInputs
    /\ seconds = Null
    /\ IdleGaps
    /\ IdleTop
    /\ IdleBuild
    /\ IdleRich

\* one call of convert_time_to_seconds
ConvertTime ==
    /\ pc = "parse"
    /\ seconds' = convert_time_to_seconds(time_str)
    /\ pc' = "parsed"
    /\ UNCHANGED <<time_str, gapVars, topVars, buildVars, richVars>>

NextParse == ConvertTime

SpecParse == InitParse /\ [][NextParse]_vars

-----------------------------------------------------------------------------
(* utils.py: convert_seconds_to_time_str.  The argument is None (Null) or  *)
(* a duration of at most three decimals, so the format rounds nothing.     *)

\* format(x, '.3f') for x >= 0
Fixed3(x) ==
    NatStr((x.n * Pow10(3 - x.f)) \div 1000) \o <<".">>
        \o Pad((x.n * Pow10(3 - x.f)) % 1000, 3)

\* the fill of the format: zeros on the left up to the width
RECURSIVE ZeroFill(_, _)
ZeroFill(t, w) == IF Len(t) >= w THEN t ELSE ZeroFill(<<"0">> \o t, w)

\* int(seconds // 60)
MinutesOf(x) == (x.n \div Pow10(x.f)) \div 60

\* seconds % 60
LeftoverOf(x) == DecSub(x, DecInt(60 * MinutesOf(x)))

\* the width of the format specification 05.3f
FormatWidth == 5

convert_seconds_to_time_str(x) ==
    IF IsNull(x) THEN <<>>
    ELSE NatStr(MinutesOf(x)) \o <<":">> \o ZeroFill(Fixed3(LeftoverOf(x)), FormatWidth)

FormatInputs ==
    {Null} \cup
    {Dec(60000 * m + 1000 * sec + f, 3) :
        m \in FormMinutes \cup {2}, sec \in FormSeconds \cup {10},
        f \in FormMillis \cup {999}}

InitFormat ==
    /\ pc = "format"
    /\ seconds \in FormatInputs
    /\ time_str = <<>>
    /\ IdleGaps
    /\ IdleTop
    /\ IdleBuild
    /\ IdleRich

\* one call of convert_seconds_to_time_str
ConvertSeconds ==
    /\ pc = "format"
    /\ time_str' = convert_seconds_to_time_str(seconds)
    /\ pc' = "formatted"
    /\ UNCHANGED <<seconds, gapVars, topVars, buildVars, richVars>>

NextFormat == ConvertSeconds

SpecFormat == InitFormat /\ [][NextFormat]_vars

-----------------------------------------------------------------------------
(* Claims about convert_time_to_seconds (checked under SpecParse).         *)

\* C9: 'S', 'M:SS.mmm' and 'H:MM:SS.mmm' parse to S, 60*M + SS.mmm and
\* 3600*H + 60*M + SS.mmm seconds, with or without a leading '+' and
\* surrounding blanks; '1:23.456' gives 83.456.
C9_FormsParseToSeconds ==
    pc = "parsed" =>
        \A p \in DecoratedForms : time_str = p[1] => seconds = Dec(p[2], 3)

C9_Witness ==
    /\ pc = "parsed"
    /\ time_str = <<" ", "+", "1", ":", "2", "3", ".", "4", "5", "6">>
    /\ seconds = Dec(83456, 3)

\* the text left after stripping blanks and a single leading '+'
StripOnePlus(t) ==
    LET w == Strip(t) IN IF StartsWith(w, "+") THEN Strip(Tail(w)) ELSE w

\* one to three ':'-separated parts: integer hours and minutes, numeric seconds
AcceptedForm(u) ==
    LET parts == Split(u, ":")
    IN  /\ Len(parts) \in 1..3
        /\ ~IsNull(PyFloat(parts[Len(parts)]))
        /\ \A i \in 1..(Len(parts) - 1) : PyInt(parts[i]).ok

\* C10: the result is null for the sentinels and for every text that, after
\* stripping blanks and a single leading '+', is not an accepted form.
C10_NullUnlessAccepted ==
    ( /\ pc = "parsed"
      /\ \/ time_str = NoneObj
         \/ Strip(time_str) \in Sentinels
         \/ ~AcceptedForm(StripOnePlus(time_str)) ) => IsNull(seconds)

-----------------------------------------------------------------------------
(* analysis.py: add_position_gaps.  A table is a sequence of rows, a row a *)
(* record; numeric cells are decimals, a NaN cell is Null.                 *)

\* a row with the columns of g added (g's value where both have the column)
WithColumns(r, g) ==
    [k \in DOMAIN r \cup DOMAIN g |-> IF k \in DOMAIN g THEN g[k] ELSE r[k]]

\* gr.sort_values('positionOrder'): ascending, by insertion
RECURSIVE InsertByPosition(_, _)
InsertByPosition(r, sorted) ==
    IF sorted = <<>> THEN <<r>>
    ELSE IF r.positionOrder < Head(sorted).positionOrder THEN <<r>> \o sorted
         ELSE <<Head(sorted)>> \o InsertByPosition(r, Tail(sorted))

RECURSIVE SortByPosition(_)
SortByPosition(gr) ==
    IF gr = <<>> THEN <<>>
    ELSE InsertByPosition(gr[Len(gr)], SortByPosition(SubSeq(gr, 1, Len(gr) - 1)))

\* win_ms: the milliseconds of the first row with positionOrder == 1, else NaN
WinMs(gr) ==
    LET w == SelectSeq(gr, LAMBDA r : r.positionOrder = 1)
    IN  IF w = <<>> THEN Null ELSE w[1].milliseconds

\* isinstance(t, str) and t.strip().startswith('+')
IsPlusText(t) == t # NoneObj /\ StartsWith(Strip(t), "+")

\* (variant: min in place of max)
MsGapMin(ms, win_ms) ==
    LET d == DecMul(DecSub(ms, win_ms), Dec(1, 3))
    IN  IF d.n > 0 THEN DecInt(0) ELSE d

\* max(0.0, (row ms - win_ms) / 1000.0)
MsGap(ms, win_ms) ==
    LET d == DecMul(DecSub(ms, win_ms), Dec(1, 3))
    IN  IF d.n < 0 THEN DecInt(0) ELSE d

\* (variant: the milliseconds tried before the '+gap' text)
gap_to_win_ms_first(row, win_ms) ==
    LET sec == IF IsPlusText(row.time) THEN convert_time_to_seconds(row.time) ELSE Null
    IN  IF ~IsNull(row.milliseconds) /\ ~IsNull(win_ms)
        THEN MsGap(row.milliseconds, win_ms)
        ELSE IF ~IsNull(sec) THEN sec
        ELSE IF row.positionOrder = 1 THEN DecInt(0) ELSE Null

gap_to_win(row, win_ms) ==
    LET sec == IF IsPlusText(row.time) THEN convert_time_to_seconds(row.time) ELSE Null
    IN  IF ~IsNull(sec) THEN sec
        ELSE IF ~IsNull(row.milliseconds) /\ ~IsNull(win_ms)
             THEN MsGap(row.milliseconds, win_ms)
        ELSE IF row.positionOrder = 1 THEN DecInt(0) ELSE Null

\* (variant: shift(1), the difference to the entry ahead)
GapToNextAhead(w) ==
    [i \in 1..Len(w) |->
        IF i = 1 \/ i = Len(w) THEN Null ELSE DecSub(w[i - 1], w[i])]

\* gap_to_winner_s.shift(-1) - gap_to_winner_s, the last one set to NaN
GapToNext(w) ==
    [i \in 1..Len(w) |-> IF i = Len(w) THEN Null ELSE DecSub(w[i + 1], w[i])]

compute_for_race(gr) ==
    LET sorted == SortByPosition(gr)
        win_ms == WinMs(sorted)
        w      == [i \in 1..Len(sorted) |-> gap_to_win(sorted[i], win_ms)]
        nxt    == GapToNext(w)
    IN  [i \in 1..Len(sorted) |->
            [raceId          |-> sorted[i].raceId,
             driverId        |-> sorted[i].driverId,
             gap_to_winner_s |-> w[i],
             gap_to_next_s   |-> nxt[i]]]

\* groupby('raceId').apply(compute_for_race): the groups in ascending raceId
RECURSIVE GroupApply(_, _)
GroupApply(g, ids) ==
    IF ids = {} THEN <<>>
    ELSE LET id == CHOOSE x \in ids : \A y \in ids : x <= y
         IN  compute_for_race(SelectSeq(g, LAMBDA r : r.raceId = id))
                \o GroupApply(g, ids \ {id})

\* df.merge(out, on=['raceId', 'driverId'], how='left')
RECURSIVE MergeGaps(_, _)
MergeGaps(df, out) ==
    IF df = <<>> THEN <<>>
    ELSE LET r == Head(df)
             m == SelectSeq(out, LAMBDA o :
                      o.raceId = r.raceId /\ o.driverId = r.driverId)
             NoGaps == [gap_to_winner_s |-> Null, gap_to_next_s |-> Null]
         IN  (IF m = <<>> THEN <<WithColumns(r, NoGaps)>>
              ELSE [i \in 1..Len(m) |-> WithColumns(r, m[i])])
                \o MergeGaps(Tail(df), out)

add_position_gaps(df) ==
    LET out == GroupApply(df, {df[i].raceId : i \in 1..Len(df)})
    IN  MergeGaps(df, out)

-----------------------------------------------------------------------------
(* Inputs of the gap runs: one result table of up to MaxEntries rows, each *)
(* row a (time text, milliseconds) pair of the kinds the results data      *)
(* holds, with finishing positions unique within a race.                   *)

MaxEntries == 3

T_None    == <<"\\", "N">>
T_Winner  == <<"1", ":", "3", "0", ":", "0", "0", ".", "0", "0", "0">>
T_Gap12   == <<" ", "+", "1", ".", "2", "0", "0">>
T_Gap35   == <<"+", "3", ".", "5">>
T_Gap99   == <<"+", "9", ".", "9">>
T_Lap     == <<"+", "1", " ", "L", "a", "p">>
T_Neg     == <<"+", "-", "1", ".", "5">>

EntryProfiles ==
    { [time |-> T_Winner, milliseconds |-> DecInt(5400000)],
      [time |-> T_None,   milliseconds |-> DecInt(5401200)],
      [time |-> T_None,   milliseconds |-> DecInt(5403500)],
      [time |-> T_None,   milliseconds |-> Null],
      [time |-> T_Gap12,  milliseconds |-> DecInt(5401200)],
      [time |-> T_Gap35,  milliseconds |-> Null],
      [time |-> T_Gap99,  milliseconds |-> DecInt(5401200)],
      [time |-> T_Lap,    milliseconds |-> Null],
      [time |-> T_Neg,    milliseconds |-> Null] }

\* row i of the table: driver i, in the race and at the position chosen
GapRow(i, raceOf, posOf, profOf) ==
    [raceId        |-> raceOf[i],
     driverId      |-> i,
     positionOrder |-> posOf[i],
     time          |-> profOf[i].time,
     milliseconds  |-> profOf[i].milliseconds]

\* the positions of k rows: any k of 1..MaxEntries, listed in finishing order
\* or in reverse (the winner may be absent from the table)
PositionLists(k) ==
    LET asc == { f \in [1..k -> 1..MaxEntries] :
                    \A i \in 1..(k - 1) : f[i] < f[i + 1] }
    IN  asc \cup { [i \in 1..k |-> f[k + 1 - i]] : f \in asc }

\* all rows in race 1, or the last row alone in race 2
RaceLists(k) ==
    { [i \in 1..k |-> 1] } \cup
    (IF k > 1 THEN { [i \in 1..k |-> IF i = k THEN 2 ELSE 1] } ELSE {})

InitGaps ==
    /\ pc = "gaps"
    /\ \E k \in 1..MaxEntries :
         \E raceOf \in RaceLists(k), posOf \in PositionLists(k),
            profOf \in [1..k -> EntryProfiles] :
                df_results = [i \in 1..k |-> GapRow(i, raceOf, posOf, profOf)]
    /\ gaps = <<>>
    /\ IdleParse
    /\ IdleTop
    /\ IdleBuild
    /\ IdleRich

\* one call of add_position_gaps
AddPositionGaps ==
    /\ pc = "gaps"
    /\ gaps' = add_position_gaps(df_results)
    /\ pc' = "gapped"
    /\ UNCHANGED <<parseVars, df_results, topVars, buildVars, richVars>>

NextGaps == AddPositionGaps

SpecGaps == InitGaps /\ [][NextGaps]_vars

\* the drivers of k rows: all different, or the last row's driver the driver
\* of the first row as well (a driver entered twice in the results of a race)
DriverLists(k) ==
    { [i \in 1..k |-> i] } \cup
    (IF k > 1 THEN { [i \in 1..k |-> IF i = k THEN 1 ELSE i] } ELSE {})

\* the gap runs on tables in which a (raceId, driverId) pair may occur twice
InitGapsAnyDrivers ==
    /\ pc = "gaps"
    /\ \E k \in 1..MaxEntries :
         \E raceOf \in RaceLists(k), posOf \in PositionLists(k),
            driverOf \in DriverLists(k), profOf \in [1..k -> EntryProfiles] :
                df_results =
                    [i \in 1..k |->
                        [GapRow(i, raceOf, posOf, profOf) EXCEPT !.driverId = driverOf[i]]]
    /\ gaps = <<>>
    /\ IdleParse
    /\ IdleTop
    /\ IdleBuild
    /\ IdleRich

SpecGapsAnyDrivers == InitGapsAnyDrivers /\ [][NextGaps]_vars

-----------------------------------------------------------------------------
(* Claims about add_position_gaps (checked under SpecGaps).                *)

GapRowIds == 1..Len(gaps)

SameRace(i, j) == gaps[i].raceId = gaps[j].raceId

RaceMates(i) == {j \in GapRowIds : SameRace(i, j)}

\* the row classified right behind row i in its race, if any
Behind(i) == {j \in RaceMates(i) : gaps[j].positionOrder > gaps[i].positionOrder}

NextBehind(i) ==
    CHOOSE j \in Behind(i) :
        \A k \in Behind(i) : gaps[j].positionOrder <= gaps[k].positionOrder

\* the value of a row's '+gap' text, Null when it has none or it does not parse
GapText(r) == IF IsPlusText(r.time) THEN convert_time_to_seconds(r.time) ELSE Null

\* the milliseconds of the winner of row i's race, Null when unknown
WinnerMsOf(i) ==
    LET w == {j \in RaceMates(i) : gaps[j].positionOrder = 1}
    IN  IF w = {} THEN Null ELSE gaps[CHOOSE j \in w : TRUE].milliseconds

\* C1: the entry with positionOrder == 1 gets gap_to_winner_s = 0, whatever its
\* 'time' text and milliseconds are.
C1_WinnerGapIsZero ==
    pc = "gapped" =>
        \A i \in GapRowIds :
            gaps[i].positionOrder = 1 => gaps[i].gap_to_winner_s = DecInt(0)

\* the race of row i is the worked example: positions 1, 2, 3 with
\* 5400000, 5401200, 5403500 ms and no '+gap' text
IsExampleRace(i) ==
    /\ {gaps[j].positionOrder : j \in RaceMates(i)} = {1, 2, 3}
    /\ \A j \in RaceMates(i) :
        /\ IsNull(GapText(gaps[j]))
        /\ gaps[j].milliseconds =
              DecInt(CASE gaps[j].positionOrder = 1 -> 5400000
                       [] gaps[j].positionOrder = 2 -> 5401200
                       [] gaps[j].positionOrder = 3 -> 5403500)

FinishTimesNonDecreasing(i) ==
    /\ Cardinality(RaceMates(i)) >= 2
    /\ \A j \in RaceMates(i) : ~IsNull(gaps[j].milliseconds)
    /\ \A j, k \in RaceMates(i) :
          gaps[j].positionOrder < gaps[k].positionOrder =>
              DecLe(gaps[j].milliseconds, gaps[k].milliseconds)

\* gap_to_winner_s does not decrease as positionOrder increases in i's race
GapsNonDecreasing(i) ==
    \A j, k \in RaceMates(i) :
        gaps[j].positionOrder < gaps[k].positionOrder =>
            ~DecLt(gaps[k].gap_to_winner_s, gaps[j].gap_to_winner_s)

\* C3 as stated: finish times non-decreasing in positionOrder imply gaps to the
\* winner non-decreasing in positionOrder.
C3_MonotoneGivenFinishTimes ==
    pc = "gapped" =>
        \A i \in GapRowIds : FinishTimesNonDecreasing(i) => GapsNonDecreasing(i)

\* every parseable '+gap' text of i's race equals the entry's millisecond gap
GapTextsAgree(i) ==
    \A j \in RaceMates(i) :
        ~IsNull(GapText(gaps[j])) =>
            /\ ~IsNull(WinnerMsOf(i))
            /\ GapText(gaps[j]) =
                  Dec(gaps[j].milliseconds.n - WinnerMsOf(i).n, 3)

\* C3 amended: ... and every parseable '+gap' text equals (ms - winner ms)/1000.
C3_MonotoneGivenAgreeingTexts ==
    pc = "gapped" =>
        \A i \in GapRowIds :
            (FinishTimesNonDecreasing(i) /\ GapTextsAgree(i)) => GapsNonDecreasing(i)

C3_Witness ==
    /\ pc = "gapped"
    /\ \E i, j, k \in GapRowIds :
        /\ FinishTimesNonDecreasing(i)
        /\ GapTextsAgree(i)
        /\ {j, k} \subseteq RaceMates(i)
        /\ ~IsNull(GapText(gaps[j]))
        /\ IsNull(GapText(gaps[k]))
        /\ gaps[i].positionOrder = 1
        /\ DecLt(gaps[i].gap_to_winner_s, gaps[j].gap_to_winner_s)
        /\ DecLt(gaps[j].gap_to_winner_s, gaps[k].gap_to_winner_s)

\* C4: every gap_to_winner_s is NaN or >= 0, whatever the 'time' text and the
\* milliseconds are.
C4_GapNeverNegative ==
    pc = "gapped" =>
        \A i \in GapRowIds :
            IsNull(gaps[i].gap_to_winner_s) \/ gaps[i].gap_to_winner_s.n >= 0

\* the gap the priority order of C5 gives row i
PriorityGap(i) ==
    LET r == gaps[i]  win == WinnerMsOf(i)
    IN  IF ~IsNull(GapText(r)) THEN GapText(r)
        ELSE IF ~IsNull(r.milliseconds) /\ ~IsNull(win)
             THEN Dec(MaxOf(0, r.milliseconds.n - win.n), 3)
        ELSE IF r.positionOrder = 1 THEN DecInt(0)
        ELSE Null

\* C5: gap_to_winner_s is the parsed '+gap' text when present and parseable;
\* else (ms - winner ms)/1000 clamped to >= 0 when both are known; else 0 for
\* the winner; else NaN.  An entry behind the winner with an unparseable gap
\* text and no milliseconds gets NaN, and every row of the table is returned.
C5_GapPriorityOrder ==
    pc = "gapped" =>
        /\ Len(gaps) = Len(df_results)
        /\ \A i \in GapRowIds :
            /\ gaps[i].gap_to_winner_s = PriorityGap(i)
            /\ ( /\ gaps[i].time = T_Lap
                 /\ IsNull(gaps[i].milliseconds)
                 /\ gaps[i].positionOrder # 1 ) => IsNull(gaps[i].gap_to_winner_s)

C5_Witness ==
    /\ pc = "gapped"
    /\ \E i, j, k \in GapRowIds :
        /\ {j, k} \subseteq RaceMates(i)
        /\ gaps[i].time = T_Lap
        /\ gaps[i].positionOrder = 3
        /\ IsNull(gaps[i].gap_to_winner_s)
        /\ gaps[j].time = T_Gap99
        /\ gaps[j].gap_to_winner_s = Dec(99, 1)
        /\ gaps[k].positionOrder = 1
        /\ gaps[k].gap_to_winner_s = DecInt(0)

-----------------------------------------------------------------------------
(* analysis.py: build_driver_table.  The column fastestLap (made numeric   *)
(* and never read again) is left out; positionOrder is never NaN here.     *)

\* Series.fillna(0)
FillNa(x) == IF IsNull(x) THEN DecInt(0) ELSE x

\* pd.to_numeric(text, errors='coerce')
ToNumeric(t) == IF t = NoneObj THEN Null ELSE PyFloat(t)

\* a text cell with no value
NoText == "<NaN>"

\* results.merge(races_f[['raceId','year','name','round','date']], on='raceId',
\* how='inner'): the rows of results, in order, that have a race
RECURSIVE MergeRaces(_, _)
MergeRaces(results, races_f) ==
    IF results = <<>> THEN <<>>
    ELSE LET r == Head(results)
             m == SelectSeq(races_f, LAMBDA o : o.raceId = r.raceId)
         IN  [i \in 1..Len(m) |-> WithColumns(r, m[i])]
                \o MergeRaces(Tail(results), races_f)

\* the base numeric cleaning of one row
Cleaned(r) ==
    WithColumns(r,
        [positions_gained |-> FillNa(DecSub(r.grid, DecInt(r.positionOrder))),
         fastestLapTime_s |-> FillNa(convert_time_to_seconds(r.fastestLapTime)),
         fastestLapSpeed  |-> FillNa(ToNumeric(r.fastestLapSpeed))])

dnf_ids ==
    {1, 2, 11, 12, 13, 14, 15, 16, 17, 18, 19, 45, 50, 128, 53, 55, 58, 88,
     111, 112, 113, 114, 115, 116, 117, 118, 119, 120, 122, 123, 124, 125, 127,
     133, 134}

\* lambda sid: 0 if pd.isna(sid) or sid in dnf_ids else 1
StatusWeightOf(sid) == IF IsNull(sid) \/ sid.n \in dnf_ids THEN 0 ELSE 1

\* df.merge(status, on='statusId', how='left'), then the status_weight column;
\* without a status table every weight is 1
RECURSIVE MergeStatus(_, _)
MergeStatus(df, status) ==
    IF df = <<>> THEN <<>>
    ELSE LET r == Head(df)
             m == SelectSeq(status, LAMBDA o : o.statusId = r.statusId)
         IN  (IF m = <<>> THEN <<WithColumns(r, [status |-> NoText])>>
              ELSE [i \in 1..Len(m) |-> WithColumns(r, m[i])])
                \o MergeStatus(Tail(df), status)

WithStatusWeight(df, status) ==
    IF status # <<>>
    THEN LET m == MergeStatus(df, status)
         IN  [i \in 1..Len(m) |->
                WithColumns(m[i], [status_weight |-> StatusWeightOf(m[i].statusId)])]
    ELSE [i \in 1..Len(df) |-> WithColumns(df[i], [status_weight |-> 1])]

\* df.merge(weather, left_on=['name','date'], right_on=['GP','Date'], how='left')
RECURSIVE MergeWeather(_, _)
MergeWeather(df, weather) ==
    IF df = <<>> THEN <<>>
    ELSE LET r == Head(df)
             m == SelectSeq(weather, LAMBDA o : o.GP = r.name /\ o.Date = r.date)
             NoWeather == [GP |-> NoText, Date |-> NoText, Precipitation |-> Null]
         IN  (IF m = <<>> THEN <<WithColumns(r, NoWeather)>>
              ELSE [i \in 1..Len(m) |-> WithColumns(r, m[i])])
                \o MergeWeather(Tail(df), weather)

\* (variant: the upper end of the second band taken in)
wet_bonus_fn_closed(precipitation) ==
    LET p == FillNa(precipitation)
    IN  IF DecLe(DecInt(5), p) /\ DecLt(p, DecInt(10)) THEN 10
        ELSE IF DecLe(DecInt(10), p) /\ DecLe(p, DecInt(20)) THEN 30
        ELSE IF DecLe(DecInt(20), p) /\ DecLt(p, DecInt(50)) THEN 80
        ELSE IF DecLe(DecInt(50), p) THEN 100
        ELSE 0

wet_bonus_fn(precipitation) ==
    LET p == FillNa(precipitation)
    IN  IF DecLe(DecInt(5), p) /\ DecLt(p, DecInt(10)) THEN 10
        ELSE IF DecLe(DecInt(10), p) /\ DecLt(p, DecInt(20)) THEN 30
        ELSE IF DecLe(DecInt(20), p) /\ DecLt(p, DecInt(50)) THEN 80
        ELSE IF DecLe(DecInt(50), p) THEN 100
        ELSE 0

WithWetBonus(df, weather) ==
    LET m == IF weather # <<>> THEN MergeWeather(df, weather)
             ELSE [i \in 1..Len(df) |-> WithColumns(df[i], [Precipitation |-> Null])]
    IN  [i \in 1..Len(m) |->
            WithColumns(m[i], [wet_bonus |-> wet_bonus_fn(m[i].Precipitation)])]

\* (variant: the full name is written over the forename as well)
WithDriverNamesOverForename(drivers) ==
    [i \in 1..Len(drivers) |->
        WithColumns(drivers[i],
            [forename    |-> drivers[i].forename \o <<" ">> \o drivers[i].surname,
             driver_name |-> drivers[i].forename \o <<" ">> \o drivers[i].surname])]

\* drivers['driver_name'] = drivers['forename'] + ' ' + drivers['surname']:
\* the column is written into the caller's drivers table
WithDriverNames(drivers) ==
    [i \in 1..Len(drivers) |->
        WithColumns(drivers[i],
            [driver_name |-> drivers[i].forename \o <<" ">> \o drivers[i].surname])]

\* df.merge(drivers[['driverId','driver_name']], on='driverId', how='left')
RECURSIVE MergeDrivers(_, _)
MergeDrivers(df, drivers) ==
    IF df = <<>> THEN <<>>
    ELSE LET r == Head(df)
             m == SelectSeq(drivers, LAMBDA o : o.driverId = r.driverId)
         IN  (IF m = <<>> THEN <<WithColumns(r, [driver_name |-> NoneObj])>>
              ELSE [i \in 1..Len(m) |->
                      WithColumns(r, [driver_name |-> m[i].driver_name])])
                \o MergeDrivers(Tail(df), drivers)

\* races[races['year'] >= min_year]
RacesFrom(races, min_year) == SelectSeq(races, LAMBDA r : r.year >= min_year)

\* the base numeric cleaning of the merged table
CleanedRows(merged) == [i \in 1..Len(merged) |-> Cleaned(merged[i])]

\* if wins_only: df = df[df['positionOrder'] == 1]
WinsOnly(df, wins_only) ==
    IF wins_only THEN SelectSeq(df, LAMBDA r : r.positionOrder = 1) ELSE df

\* (variant: the wins_only filter applied before the gaps are computed)
build_driver_table_wins_first(tables, min_year, wins_only) ==
    MergeDrivers(
        WithWetBonus(
            WithStatusWeight(
                add_position_gaps(
                    WinsOnly(
                        CleanedRows(
                            MergeRaces(tables.results,
                                       RacesFrom(tables.races, min_year))),
                        wins_only)),
                tables.status),
            tables.weather),
        WithDriverNames(tables.drivers))

build_driver_table(tables, min_year, wins_only) ==
    MergeDrivers(
        WithWetBonus(
            WithStatusWeight(
                WinsOnly(
                    add_position_gaps(
                        CleanedRows(
                            MergeRaces(tables.results,
                                       RacesFrom(tables.races, min_year)))),
                    wins_only),
                tables.status),
            tables.weather),
        WithDriverNames(tables.drivers))

-----------------------------------------------------------------------------
(* analysis.py: top_races_for_driver                                       *)

\* the weights W
W == [positions_gained |-> Dec(4, 0),
      gap_to_next_s    |-> Dec(12, 1),
      gap_to_winner_s  |-> Dec(-2, 0),
      fastestLapTime_s |-> Dec(-1, 0),
      fastestLapSpeed  |-> Dec(1, 0),
      status_weight    |-> Dec(1, 0),
      wet_bonus        |-> Dec(1, 0)]

\* the five columns made numeric with NaN replaced by 0.0
Numeric(r) ==
    WithColumns(r,
        [gap_to_winner_s  |-> FillNa(r.gap_to_winner_s),
         gap_to_next_s    |-> FillNa(r.gap_to_next_s),
         fastestLapSpeed  |-> FillNa(r.fastestLapSpeed),
         fastestLapTime_s |-> FillNa(r.fastestLapTime_s),
         positions_gained |-> FillNa(r.positions_gained)])

\* (variant: the weights of the two gaps exchanged)
ScoreOfFlipped(r) ==
    DecAdd(DecAdd(DecAdd(DecAdd(DecAdd(DecAdd(
        DecMul(r.positions_gained, W.positions_gained),
        DecMul(r.gap_to_next_s, W.gap_to_winner_s)),
        DecMul(r.gap_to_winner_s, W.gap_to_next_s)),
        DecMul(r.fastestLapTime_s, W.fastestLapTime_s)),
        DecMul(r.fastestLapSpeed, W.fastestLapSpeed)),
        DecMul(DecInt(r.status_weight), W.status_weight)),
        DecMul(DecInt(r.wet_bonus), W.wet_bonus))

\* the weighted sum of the seven columns
ScoreOf(r) ==
    DecAdd(DecAdd(DecAdd(DecAdd(DecAdd(DecAdd(
        DecMul(r.positions_gained, W.positions_gained),
        DecMul(r.gap_to_next_s, W.gap_to_next_s)),
        DecMul(r.gap_to_winner_s, W.gap_to_winner_s)),
        DecMul(r.fastestLapTime_s, W.fastestLapTime_s)),
        DecMul(r.fastestLapSpeed, W.fastestLapSpeed)),
        DecMul(DecInt(r.status_weight), W.status_weight)),
        DecMul(DecInt(r.wet_bonus), W.wet_bonus))

\* df['score'] = ...
WithScore(r) == WithColumns(r, [score |-> ScoreOf(r)])

\* the numeric columns filled and the score added, row by row
ScoredRows(df) == [i \in 1..Len(df) |-> WithScore(Numeric(df[i]))]

\* the driver's rows of the driver table with their score, in table order
Scored(tables, driver_name, min_year, wins_only) ==
    ScoredRows(SelectSeq(build_driver_table(tables, min_year, wins_only),
                         LAMBDA r : r.driver_name = driver_name))

\* df.sort_values('score', ascending=False): the default kind is 'quicksort',
\* which promises no order among rows of equal score; every order of the rows
\* with the scores descending is a possible outcome
SortOrders(df) ==
    { p \in [1..Len(df) -> 1..Len(df)] :
        /\ \A i, j \in 1..Len(df) : i # j => p[i] # p[j]
        /\ \A i \in 1..(Len(df) - 1) : DecLe(df[p[i + 1]].score, df[p[i]].score) }

cols == {"year", "round", "name", "driver_name", "positionOrder", "grid",
         "positions_gained", "gap_to_winner_s", "gap_to_next_s",
         "fastestLapTime_s", "fastestLapSpeed", "wet_bonus", "score"}

\* df[cols]
Project(r) == [k \in cols |-> r[k]]

\* (variant: one row short)
HeadRowsShort(df, n) == SubSeq(df, 1, MinOf(n - 1, Len(df)))

\* DataFrame.head(n)

HeadRows(df, n) ==
    IF n >= 0 THEN SubSeq(df, 1, MinOf(n, Len(df)))
    ELSE SubSeq(df, 1, MaxOf(0, Len(df) + n))

-----------------------------------------------------------------------------
(* Inputs of the ranking runs: the results table is any selection, in      *)
(* order, of at most MaxResults rows of a reference table of four races.   *)

MaxResults == 4

MaxTop == 3

T_Lap83 == <<"1", ":", "2", "3", ".", "4", "5", "6">>
T_Lap85 == <<"1", ":", "2", "5", ".", "0", "0", "0">>
T_Speed == <<"2", "0", "0", ".", "5">>

DriversTable ==
    << [driverId |-> 1, forename |-> <<"L">>, surname |-> <<"H">>],
       [driverId |-> 2, forename |-> <<"M">>, surname |-> <<"V">>] >>

DriverNames == {<<"L", " ", "H">>, <<"M", " ", "V">>, <<"N", " ", "O">>}

RacesTable ==
    << [raceId |-> 1, year |-> 2018, name |-> "A", round |-> 1, date |-> "d1"],
       [raceId |-> 2, year |-> 2019, name |-> "B", round |-> 1, date |-> "d2"],
       [raceId |-> 3, year |-> 2019, name |-> "C", round |-> 2, date |-> "d3"],
       [raceId |-> 4, year |-> 2017, name |-> "D", round |-> 1, date |-> "d4"] >>

MinYears == {2018, 2019}

StatusTable ==
    << [statusId |-> DecInt(1),  status |-> "Finished"],
       [statusId |-> DecInt(3),  status |-> "Accident"],
       [statusId |-> DecInt(11), status |-> "+1 Lap"] >>

WeatherTable ==
    << [GP |-> "A", Date |-> "d1", Precipitation |-> DecInt(15)],
       [GP |-> "B", Date |-> "d2", Precipitation |-> Null] >>

ResultRow(race, driver, pos, grid, ms, time, lap, speed, sid) ==
    [raceId |-> race, driverId |-> driver, positionOrder |-> pos, grid |-> grid,
     milliseconds |-> ms, time |-> time, fastestLapTime |-> lap,
     fastestLapSpeed |-> speed, statusId |-> sid]

MasterResults ==
    << ResultRow(1, 1, 1, DecInt(3), DecInt(5400000), T_Winner, T_Lap83, T_Speed, DecInt(1)),
       ResultRow(1, 2, 2, DecInt(1), DecInt(5401200), T_Gap12,  T_None,  T_None,  Null),
       ResultRow(2, 1, 1, DecInt(3), DecInt(5400000), T_Winner, T_Lap83, T_Speed, DecInt(1)),
       ResultRow(2, 2, 2, Null,      Null,            T_Lap,    T_Lap85, T_Speed, DecInt(11)),
       ResultRow(3, 2, 1, DecInt(1), DecInt(5400000), T_Winner, T_Lap83, T_Speed, DecInt(1)),
       ResultRow(3, 1, 2, Null,      DecInt(5403500), T_Gap35,  T_None,  T_None,  DecInt(3)),
       ResultRow(4, 1, 1, DecInt(2), DecInt(5400000), T_Winner, T_Lap85, T_Speed, DecInt(1)) >>

\* the rows of a table whose index is in S, in table order
RECURSIVE RowsAt(_, _, _)
RowsAt(t, i, S) ==
    IF i > Len(t) THEN <<>>
    ELSE (IF i \in S THEN <<t[i]>> ELSE <<>>) \o RowsAt(t, i + 1, S)

InitTop ==
    /\ pc = "top"
    /\ \E S \in SUBSET (1..Len(MasterResults)) :
        /\ Cardinality(S) <= MaxResults
        /\ \E st \in {<<>>, StatusTable}, we \in {<<>>, WeatherTable} :
              dfs = [drivers |-> DriversTable,
                     results |-> RowsAt(MasterResults, 1, S),
                     races   |-> RacesTable,
                     status  |-> st,
                     weather |-> we]
    /\ args \in [driver_name : DriverNames, n_top : 0..MaxTop,
                 min_year : MinYears, wins_only : BOOLEAN]
    /\ scored = <<>>
    /\ ranked = <<>>
    /\ top = <<>>
    /\ IdleParse
    /\ IdleGaps
    /\ IdleBuild
    /\ IdleRich

\* one call of top_races_for_driver
TopRacesForDriver ==
    /\ pc = "top"
    /\ \E df \in {Scored(dfs, args.driver_name, args.min_year, args.wins_only)} :
        /\ scored' = df
        /\ \E p \in SortOrders(df) :
            /\ ranked' = [i \in 1..Len(df) |-> df[p[i]]]
            /\ top' = HeadRows([i \in 1..Len(df) |-> Project(df[p[i]])], args.n_top)
    /\ dfs' = [dfs EXCEPT !.drivers = WithDriverNames(dfs.drivers)]
    /\ pc' = "topped"
    /\ UNCHANGED <<args, parseVars, gapVars, buildVars, richVars>>

NextTop == TopRacesForDriver

SpecTop == InitTop /\ [][NextTop]_vars

-----------------------------------------------------------------------------
(* Runs of build_driver_table: up to MaxCalls calls in a row on the same   *)
(* dictionary of tables, with the same min_year and wins_only.  The        *)
(* weather table gives race A any of the precipitation values below.       *)

MaxCalls == 2

PrecipValues ==
    {Null, DecInt(-1), DecInt(0), Dec(49, 1), DecInt(5), Dec(99, 1), DecInt(10),
     DecInt(15), Dec(199, 1), DecInt(20), Dec(499, 1), DecInt(50), DecInt(100)}

WeatherWith(p) ==
    << [GP |-> "A", Date |-> "d1", Precipitation |-> p],
       [GP |-> "B", Date |-> "d2", Precipitation |-> Null] >>

InitBuild ==
    /\ pc = "build"
    /\ \E S \in SUBSET (1..Len(MasterResults)) :
        /\ Cardinality(S) <= MaxResults
        /\ \E st \in {<<>>, StatusTable},
              we \in {<<>>} \cup {WeatherWith(p) : p \in PrecipValues} :
              dfs = [drivers |-> DriversTable,
                     results |-> RowsAt(MasterResults, 1, S),
                     races   |-> RacesTable,
                     status  |-> st,
                     weather |-> we]
    /\ args \in [driver_name : {<<>>}, n_top : {0},
                 min_year : MinYears, wins_only : BOOLEAN]
    /\ built = <<>>
    /\ field = <<>>
    /\ scored = <<>>
    /\ ranked = <<>>
    /\ top = <<>>
    /\ IdleParse
    /\ IdleGaps
    /\ IdleRich

\* one call of build_driver_table(dfs, min_year, wins_only)
BuildDriverTable ==
    /\ pc = "build"
    /\ Len(built) < MaxCalls
    /\ built' = Append(built, build_driver_table(dfs, args.min_year, args.wins_only))
    /\ field' = add_position_gaps(
                    CleanedRows(MergeRaces(dfs.results,
                                           RacesFrom(dfs.races, args.min_year))))
    /\ dfs' = [dfs EXCEPT !.drivers = WithDriverNames(dfs.drivers)]
    /\ UNCHANGED <<pc, args, scored, ranked, top, parseVars, gapVars, richVars>>

NextBuild == BuildDriverTable

SpecBuild == InitBuild /\ [][NextBuild]_vars

-----------------------------------------------------------------------------
(* telemetry.py: analyze_topN_rich.  A lap is the record                   *)
(*   [dist, has_drs, DRS, corners, drs_zones]:                             *)
(* dist is car_data['Distance'] (decimals), has_drs says whether car_data  *)
(* has a DRS column and DRS is that column, corners is the column          *)
(* corners['Distance'] and drs_zones the rows of the DRS-zone table.  A    *)
(* mask is a sequence of booleans, one per sample.  Of row_out the keys    *)
(* year, gp, driver, lap_used and the two DRS coverages are kept; speed,   *)
(* throttle and brake and the masks made from them are left out.  A        *)
(* coverage is the exact fraction [num, den] in lowest terms.              *)

\* a cell float() raises on (a text that is no number, None)
BadCell == [n |-> 0, f |-> -2]

IsBad(x) == x = BadCell

AllFalse(dist) == [i \in 1..Len(dist) |-> FALSE]

MaskOr(a, b) == [i \in 1..Len(a) |-> a[i] \/ b[i]]

MaskAnd(a, b) == [i \in 1..Len(a) |-> a[i] /\ b[i]]

MaskNot(a) == [i \in 1..Len(a) |-> ~a[i]]

\* (variant: the ends of the segment left out)
segment_mask_open(dist, start, end) ==
    [i \in 1..Len(dist) |-> DecLt(start, dist[i]) /\ DecLt(dist[i], end)]

\* (distance_series >= start) & (distance_series <= end)
segment_mask_by_distance(dist, start, end) ==
    [i \in 1..Len(dist) |-> DecLe(start, dist[i]) /\ DecLe(dist[i], end)]

\* the loop over the corners: is_corner |= mask for every corner whose
\* Distance float() accepts and whose window holds a sample
RECURSIVE TagCorners(_, _, _, _)
TagCorners(dist, corners, w, is_corner) ==
    IF corners = <<>> THEN is_corner
    ELSE IF IsBad(Head(corners)) THEN TagCorners(dist, Tail(corners), w, is_corner)
    ELSE TagCorners(dist, Tail(corners), w,
            MaskOr(is_corner,
                   segment_mask_by_distance(dist, DecSub(Head(corners), DecInt(w)),
                                            DecAdd(Head(corners), DecInt(w)))))

\* _safe_col(car_data, 'DRS')
safe_col_DRS(lap) == lap.has_drs /\ \E i \in 1..Len(lap.DRS) : ~IsNull(lap.DRS[i])

\* pd.to_numeric(car_data['DRS'], errors='coerce').fillna(0.0) > 0
DrsOn(lap) == [i \in 1..Len(lap.DRS) |-> DecLt(DecInt(0), FillNa(lap.DRS[i]))]

DecMin(a, b) == IF DecLe(a, b) THEN a ELSE b

DecMax(a, b) == IF DecLe(a, b) THEN b ELSE a

\* (variant: the zone taken as written, from DistanceActivation to DistanceEnd)
ZonesMaskAsWritten(dist, zones, is_drs) ==
    LET Z == {k \in 1..Len(zones) : ~IsNull(zones[k].a) /\ ~IsNull(zones[k].b)}
    IN  [i \in 1..Len(dist) |->
            \/ is_drs[i]
            \/ \E k \in Z : DecLe(zones[k].a, dist[i]) /\ DecLe(dist[i], zones[k].b)]

\* the loop over drs_zones: a zone with a NaN end is passed over
RECURSIVE ZonesMask(_, _, _)
ZonesMask(dist, zones, is_drs) ==
    IF zones = <<>> THEN is_drs
    ELSE IF IsNull(Head(zones).a) \/ IsNull(Head(zones).b)
         THEN ZonesMask(dist, Tail(zones), is_drs)
    ELSE ZonesMask(dist, Tail(zones),
            MaskOr(is_drs,
                   segment_mask_by_distance(dist,
                        DecMin(Head(zones).a, Head(zones).b),
                        DecMax(Head(zones).a, Head(zones).b))))

\* is_drs on both paths
IsDrs(lap, is_straight) ==
    IF safe_col_DRS(lap) THEN MaskAnd(DrsOn(lap), is_straight)
    ELSE MaskAnd(ZonesMask(lap.dist, lap.drs_zones, AllFalse(lap.dist)), is_straight)

\* is_nondrs on both paths
IsNonDrs(lap, is_straight, is_drs) ==
    IF safe_col_DRS(lap) THEN MaskAnd(MaskNot(DrsOn(lap)), is_straight)
    ELSE MaskAnd(is_straight, MaskNot(is_drs))

MasksFrom(lap, is_corner, is_straight, is_drs) ==
    [dist |-> lap.dist, is_corner |-> is_corner, is_straight |-> is_straight,
     is_drs |-> is_drs, is_nondrs |-> IsNonDrs(lap, is_straight, is_drs)]

StraightMasks(lap, is_corner, is_straight) ==
    MasksFrom(lap, is_corner, is_straight, IsDrs(lap, is_straight))

CornerMasks(lap, is_corner) == StraightMasks(lap, is_corner, MaskNot(is_corner))

\* the masks of one lap
Segment(lap, w) ==
    CornerMasks(lap, TagCorners(lap.dist, lap.corners, w, AllFalse(lap.dist)))

\* the largest and the smallest of a non-empty set of decimals
SetMax(S) == CHOOSE x \in S : \A y \in S : DecLe(y, x)

SetMin(S) == CHOOSE x \in S : \A y \in S : DecLe(x, y)

\* (dist >= d0 - corner_window_m) & (dist <= d0 + corner_window_m)
CornerWindow(dist, d0, w) ==
    segment_mask_by_distance(dist, DecSub(d0, DecInt(w)), DecAdd(d0, DecInt(w)))

AnyOf(mask) == \E i \in 1..Len(mask) : mask[i]

\* speed[mask]
SpeedsIn(speed, mask) == {speed[i] : i \in {j \in 1..Len(mask) : mask[j]}}

\* np.nanmin: the smallest of the values that are numbers, NaN without any
NanMin(S) == IF S \ {Null} = {} THEN Null ELSE SetMin(S \ {Null})

\* apex_by_corner: (idx, apex, d0) for every corner whose Distance float()
\* accepts and whose window holds a sample; k is the index of Head(corners)
RECURSIVE ApexByCorner(_, _, _, _, _)
ApexByCorner(dist, speed, corners, w, k) ==
    IF corners = <<>> THEN <<>>
    ELSE IF IsBad(Head(corners))
         THEN ApexByCorner(dist, speed, Tail(corners), w, k + 1)
    ELSE IF ~AnyOf(CornerWindow(dist, Head(corners), w))
         THEN ApexByCorner(dist, speed, Tail(corners), w, k + 1)
    ELSE << [idx  |-> k,
             apex |-> NanMin(SpeedsIn(speed, CornerWindow(dist, Head(corners), w))),
             d0   |-> Head(corners)] >>
         \o ApexByCorner(dist, speed, Tail(corners), w, k + 1)

\* apex < thr, which is False for a NaN apex
ApexBelow(apex, thr) == ~IsNull(apex) /\ DecLt(apex, DecInt(thr))

\* a list of masks, each named by the idx of its corner
IdxOf(cs) == [i \in 1..Len(cs) |-> cs[i].idx]

\* if apex < hairpin_thr_kph: hairpin_masks.append(k)
HairpinMasks(abc) ==
    IdxOf(SelectSeq(abc, LAMBDA c : ApexBelow(c.apex, hairpin_thr_kph)))

\* if apex < slow_thr_kph: slow_masks.append(k)
SlowMasks(abc) ==
    IdxOf(SelectSeq(abc, LAMBDA c : ApexBelow(c.apex, slow_thr_kph)))

\* elif apex < medium_thr_kph: med_masks.append(k)
MedMasks(abc) ==
    IdxOf(SelectSeq(abc, LAMBDA c : /\ ~ApexBelow(c.apex, slow_thr_kph)
                                    /\ ApexBelow(c.apex, medium_thr_kph)))

\* else: high_masks.append(k)
HighMasks(abc) ==
    IdxOf(SelectSeq(abc, LAMBDA c : /\ ~ApexBelow(c.apex, slow_thr_kph)
                                    /\ ~ApexBelow(c.apex, medium_thr_kph)))

\* pd.Series(False); [s.__ior__(m) for m in masks]
OrOfMasks(dist, corners, w, masks) ==
    [i \in 1..Len(dist) |->
        \E k \in 1..Len(masks) : CornerWindow(dist, corners[masks[k] + 1], w)[i]]

\* dists.sort()
RECURSIVE InsertDec(_, _)
InsertDec(d, sorted) ==
    IF sorted = <<>> THEN <<d>>
    ELSE IF DecLe(d, Head(sorted)) THEN <<d>> \o sorted
         ELSE <<Head(sorted)>> \o InsertDec(d, Tail(sorted))

RECURSIVE SortDec(_)
SortDec(ds) ==
    IF ds = <<>> THEN <<>> ELSE InsertDec(Head(ds), SortDec(Tail(ds)))

\* np.array([d for (_, _, d) in apex_by_corner]), sorted
Dists(abc) == SortDec([i \in 1..Len(abc) |-> abc[i].d0])

\* while j + 1 < L and (dists[j + 1] - dists[i] <= complex_span_m): j += 1
RECURSIVE GroupEnd(_, _, _)
GroupEnd(dists, i, j) ==
    IF j + 1 <= Len(dists)
       /\ DecLe(DecSub(dists[j + 1], dists[i]), DecInt(complex_span_m))
    THEN GroupEnd(dists, i, j + 1)
    ELSE j

\* if (j - i + 1) >= 3: is_complex |= _segment_mask_by_distance(...)
MarkGroup(dist, dists, i, j, w, is_complex) ==
    IF j - i + 1 >= 3
    THEN MaskOr(is_complex,
                segment_mask_by_distance(dist, DecSub(dists[i], DecInt(w)),
                                         DecAdd(dists[j], DecInt(w))))
    ELSE is_complex

\* (variant: the next group starts after the last corner of this one)
RECURSIVE ComplexFromGreedy(_, _, _, _, _)
ComplexFromGreedy(dist, dists, i, w, is_complex) ==
    IF i > Len(dists) THEN is_complex
    ELSE ComplexFromGreedy(dist, dists, GroupEnd(dists, i, i) + 1, w,
                           MarkGroup(dist, dists, i, GroupEnd(dists, i, i), w, is_complex))

\* while i < L: ...; i += 1
RECURSIVE ComplexFrom(_, _, _, _, _)
ComplexFrom(dist, dists, i, w, is_complex) ==
    IF i > Len(dists) THEN is_complex
    ELSE ComplexFrom(dist, dists, i + 1, w,
                     MarkGroup(dist, dists, i, GroupEnd(dists, i, i), w, is_complex))

\* is_complex
IsComplex(dist, abc, w) ==
    IF Len(abc) >= 3 THEN ComplexFrom(dist, Dists(abc), 1, w, AllFalse(dist))
    ELSE AllFalse(dist)

ClassesFrom(lap, w, abc) ==
    [apex_by_corner |-> abc,
     slow_masks |-> SlowMasks(abc), med_masks |-> MedMasks(abc),
     high_masks |-> HighMasks(abc), hairpin_masks |-> HairpinMasks(abc),
     is_slow    |-> OrOfMasks(lap.dist, lap.corners, w, SlowMasks(abc)),
     is_med     |-> OrOfMasks(lap.dist, lap.corners, w, MedMasks(abc)),
     is_high    |-> OrOfMasks(lap.dist, lap.corners, w, HighMasks(abc)),
     is_hairpin |-> OrOfMasks(lap.dist, lap.corners, w, HairpinMasks(abc)),
     is_complex |-> IsComplex(lap.dist, abc, w)]

\* the corner classes and the complexes of one lap
CornerClasses(lap, w) ==
    ClassesFrom(lap, w, ApexByCorner(lap.dist, lap.speed, lap.corners, w, 0))

RECURSIVE Gcd(_, _)
Gcd(a, b) == IF b = 0 THEN a ELSE Gcd(b, a % b)

\* the fraction a / b (b > 0, a >= 0) in lowest terms
Frac(a, b) == [num |-> a \div Gcd(a, b), den |-> b \div Gcd(a, b)]

FracAdd(x, y) == Frac(x.num * y.den + y.num * x.den, x.den * y.den)

FracLe(x, y) == x.num * y.den <= y.num * x.den

Span(S) == DecSub(SetMax(S), SetMin(S))

\* float(100.0 * length / total) if total > 0 else 0.0
Percent(length, total) ==
    IF DecLt(DecInt(0), total)
    THEN Frac(100 * length.n * Pow10(total.f), total.n * Pow10(length.f))
    ELSE Frac(0, 1)

Covered(dist, mask) == {dist[i] : i \in {j \in 1..Len(dist) : mask[j]}}

AllOf(dist) == {dist[i] : i \in 1..Len(dist)}

\* coverage(mask)
coverage(dist, mask) ==
    IF dist = <<>> THEN Frac(0, 1)
    ELSE IF Covered(dist, mask) = {} THEN Frac(0, 1)
    ELSE Percent(Span(Covered(dist, mask)), Span(AllOf(dist)))

\* row_out
RowOut(row, m) ==
    [year |-> row.year, gp |-> row.name, driver |-> "driver", lap_used |-> "fastest",
     coverage_pct_straight_drs    |-> coverage(m.dist, m.is_drs),
     coverage_pct_straight_nondrs |-> coverage(m.dist, m.is_nondrs)]

\* the order of the race names as texts
NameOrder == <<"A", "B">>

NameRank(n) == CHOOSE k \in 1..Len(NameOrder) : NameOrder[k] = n

RowBefore(a, b) ==
    a.year < b.year \/ (a.year = b.year /\ NameRank(a.gp) < NameRank(b.gp))

\* sort_values(['year', 'gp']): by two keys, rows of equal keys in list order
RECURSIVE InsertByYearGp(_, _)
InsertByYearGp(r, sorted) ==
    IF sorted = <<>> THEN <<r>>
    ELSE IF RowBefore(r, Head(sorted)) THEN <<r>> \o sorted
         ELSE <<Head(sorted)>> \o InsertByYearGp(r, Tail(sorted))

RECURSIVE SortByYearGp(_)
SortByYearGp(rows) ==
    IF rows = <<>> THEN <<>>
    ELSE InsertByYearGp(rows[Len(rows)], SortByYearGp(SubSeq(rows, 1, Len(rows) - 1)))

RECURSIVE FracSum(_, _)
FracSum(rows, col) ==
    IF rows = <<>> THEN Frac(0, 1)
    ELSE FracAdd(Head(rows)[col], FracSum(Tail(rows), col))

\* the mean of a column
FracMean(rows, col) ==
    Frac(FracSum(rows, col).num, FracSum(rows, col).den * Len(rows))

\* per_race.drop(columns=[...]).mean(numeric_only=True) as a metric/value table
Overall(per_race) ==
    << [metric |-> "coverage_pct_straight_drs",
        value  |-> FracMean(per_race, "coverage_pct_straight_drs")],
       [metric |-> "coverage_pct_straight_nondrs",
        value  |-> FracMean(per_race, "coverage_pct_straight_nondrs")] >>

\* year < 2018: telemetry is not asked for
CutoffYear == 2018

\* the outcomes of _load_lap_and_circuit that return (None, None, None)
LoadFailures == {"session_load_failed", "no_laps", "no_car_data"}

\* (variant: the loop is entered whatever topN is)
EnterRichUnguarded ==
    /\ pc = "rich"
    /\ pc' = "loop"
    /\ idx' = 1
    /\ UNCHANGED <<topN, provider, corner_window_m, out_rows, seg, result,
                   knobVars, parseVars, gapVars, topVars, buildVars>>

\* if topN is None or topN.empty: return the two empty tables
EnterRich ==
    /\ pc = "rich"
    /\ IF topN.is_none \/ topN.rows = <<>>
       THEN /\ pc' = "returned"
            /\ result' = [raised |-> "", per_race |-> <<>>, overall |-> <<>>]
            /\ idx' = idx
       ELSE /\ pc' = "loop"
            /\ idx' = 1
            /\ result' = result
    /\ UNCHANGED <<topN, provider, corner_window_m, out_rows, seg,
                   knobVars, parseVars, gapVars, topVars, buildVars>>

\* a race before the cutoff year is passed over
SkipRace ==
    /\ pc = "loop"
    /\ idx <= Len(topN.rows)
    /\ topN.rows[idx].year < CutoffYear
    /\ idx' = idx + 1
    /\ UNCHANGED <<pc, topN, provider, corner_window_m, out_rows, seg, result,
                   knobVars, parseVars, gapVars, topVars, buildVars>>

\* _load_lap_and_circuit returned (None, None, None), or an empty car_data
NoCarData ==
    /\ pc = "loop"
    /\ idx <= Len(topN.rows)
    /\ topN.rows[idx].year >= CutoffYear
    /\ \/ provider[idx].kind \in LoadFailures
       \/ provider[idx].kind = "car_data" /\ provider[idx].lap.dist = <<>>
    /\ idx' = idx + 1
    /\ UNCHANGED <<pc, topN, provider, corner_window_m, out_rows, seg, result,
                   knobVars, parseVars, gapVars, topVars, buildVars>>

\* the body of the loop for a race with car data
AnalyseRace ==
    /\ pc = "loop"
    /\ idx <= Len(topN.rows)
    /\ topN.rows[idx].year >= CutoffYear
    /\ provider[idx].kind = "car_data"
    /\ provider[idx].lap.dist # <<>>
    /\ \E m \in {Segment(provider[idx].lap, corner_window_m)
                    @@ CornerClasses(provider[idx].lap, corner_window_m)} :
        /\ seg' = m
        /\ out_rows' = Append(out_rows, RowOut(topN.rows[idx], m))
    /\ idx' = idx + 1
    /\ UNCHANGED <<pc, topN, provider, corner_window_m, result,
                   knobVars, parseVars, gapVars, topVars, buildVars>>

\* after the loop: pd.DataFrame(out_rows).sort_values(['year', 'gp']) raises
\* KeyError on the table without columns that an empty out_rows makes
ReturnRich ==
    /\ pc = "loop"
    /\ idx > Len(topN.rows)
    /\ IF out_rows = <<>>
       THEN /\ pc' = "raised"
            /\ result' = [raised |-> "KeyError", per_race |-> <<>>, overall |-> <<>>]
       ELSE /\ pc' = "returned"
            /\ \E per_race \in {SortByYearGp(out_rows)} :
                 result' = [raised |-> "", per_race |-> per_race,
                            overall |-> Overall(per_race)]
    /\ UNCHANGED <<topN, provider, corner_window_m, idx, out_rows, seg,
                   knobVars, parseVars, gapVars, topVars, buildVars>>

NextRich == EnterRich \/ SkipRace \/ NoCarData \/ AnalyseRace \/ ReturnRich

-----------------------------------------------------------------------------
(* Inputs of the telemetry runs.  Either one race whose lap is any lap of  *)
(* at most MaxSamples samples, or a list of at most MaxRaces races whose   *)
(* laps are taken from two examples.                                       *)

MaxSamples == 3

MaxRaces == 2

\* distances along the lap, never decreasing
DistLists(k) ==
    { [i \in 1..k |-> DecInt(q[i])] : q \in
        { f \in [1..k -> 0..3] : \A i \in 1..(k - 1) : f[i] <= f[i + 1] } }

\* a DRS cell: nothing, closed, open
DrsCells == {Null, DecInt(0), DecInt(12)}

CornerLists ==
    { <<>>, <<DecInt(1)>>, <<Null>>, <<BadCell, DecInt(2)>>, <<DecInt(0), DecInt(3)>> }

ZoneLists ==
    { <<>>,
      <<[a |-> DecInt(1), b |-> DecInt(2)]>>,
      <<[a |-> DecInt(2), b |-> DecInt(1)]>>,
      <<[a |-> DecInt(0), b |-> DecInt(0)], [a |-> DecInt(3), b |-> DecInt(2)]>>,
      <<[a |-> Null, b |-> DecInt(2)], [a |-> DecInt(3), b |-> DecInt(3)]>> }

Windows == {0, 1}

\* the same speed at every sample
FlatOut(k) == [i \in 1..k |-> DecInt(200)]

\* speeds along the lap: the cells of SpeedCells in order, from any of them on
SpeedCells == <<DecInt(60), DecInt(125), Null, DecInt(200)>>

SpeedLists(k) ==
    { [i \in 1..k |-> SpeedCells[((i + s) % Len(SpeedCells)) + 1]] :
        s \in 1..Len(SpeedCells) }

\* the circuit's corners where three or more of them are close together
CloseCornerLists ==
    { <<DecInt(0), DecInt(1), DecInt(1), DecInt(2)>>,
      <<DecInt(0), DecInt(1), DecInt(2)>>,
      <<DecInt(2), DecInt(0), DecInt(3), DecInt(1)>>,
      <<DecInt(3), BadCell, DecInt(0), DecInt(3)>>,
      <<DecInt(1), DecInt(1)>> }

\* complex_span_m, in the units of the distances
Spans == {1, 2}

\* the three thresholds: the defaults, a hairpin threshold above the slow
\* one, a medium threshold below the slow one
ThresholdConfigs ==
    { [slow |-> 120, medium |-> 170, hairpin |-> 80],
      [slow |-> 120, medium |-> 170, hairpin |-> 130],
      [slow |-> 170, medium |-> 120, hairpin |-> 80] }

NoLap == [dist |-> <<>>, speed |-> <<>>, has_drs |-> FALSE, DRS |-> <<>>,
          corners |-> <<>>, drs_zones |-> <<>>]

Failed(kind) == [kind |-> kind, lap |-> NoLap]

CarData(lap) == [kind |-> "car_data", lap |-> lap]

ExampleLaps ==
    { [dist |-> <<DecInt(0), DecInt(1), DecInt(2), DecInt(3)>>,
       speed |-> <<DecInt(200), DecInt(125), DecInt(60), DecInt(200)>>,
       has_drs |-> TRUE,
       DRS |-> <<DecInt(12), DecInt(0), DecInt(0), DecInt(12)>>,
       corners |-> <<>>, drs_zones |-> <<>>],
      [dist |-> <<DecInt(0), DecInt(2)>>,
       speed |-> <<DecInt(60), DecInt(200)>>, has_drs |-> FALSE, DRS |-> <<>>,
       corners |-> <<DecInt(0)>>,
       drs_zones |-> <<[a |-> DecInt(2), b |-> DecInt(1)]>>] }

RaceOutcomes ==
    {Failed(k) : k \in LoadFailures} \cup {CarData(NoLap)}
        \cup {CarData(l) : l \in ExampleLaps}

RaceRows == [year : {2017, 2018}, name : {"A", "B"}]

StartRich ==
    /\ pc = "rich"
    /\ idx = 0
    /\ out_rows = <<>>
    /\ seg = NoSeg
    /\ result = NoResult
    /\ IdleParse
    /\ IdleGaps
    /\ IdleTop
    /\ IdleBuild

InitLap ==
    /\ StartRich
    /\ corner_window_m \in Windows
    /\ DefaultKnobs
    /\ \E y \in {2017, 2018} :
        /\ topN = [is_none |-> FALSE, rows |-> <<[year |-> y, name |-> "A"]>>]
        /\ \/ /\ y = 2017
              /\ provider = <<Failed("session_load_failed")>>
           \/ /\ y = 2018
              /\ \E k \in LoadFailures : provider = <<Failed(k)>>
           \/ /\ y = 2018
              /\ \E k \in 0..MaxSamples : \E dist \in DistLists(k) :
                 \E corners \in CornerLists :
                   \/ \E drs \in [1..k -> DrsCells] :
                        provider = <<CarData([dist |-> dist,
                                              speed |-> FlatOut(k),
                                              has_drs |-> TRUE,
                                              DRS |-> drs, corners |-> corners,
                                              drs_zones |-> <<>>])>>
                   \/ \E zones \in ZoneLists :
                      \E drs \in {<<>>, [i \in 1..k |-> Null]} :
                        provider = <<CarData([dist |-> dist,
                                              speed |-> FlatOut(k),
                                              has_drs |-> (drs # <<>>),
                                              DRS |-> drs, corners |-> corners,
                                              drs_zones |-> zones])>>

InitRaces ==
    /\ StartRich
    /\ corner_window_m = 1
    /\ DefaultKnobs
    /\ \/ topN = [is_none |-> TRUE, rows |-> <<>>] /\ provider = <<>>
       \/ \E k \in 0..MaxRaces :
            /\ \E rows \in [1..k -> RaceRows] : topN = [is_none |-> FALSE, rows |-> rows]
            /\ provider \in [1..k -> RaceOutcomes]

\* one race whose circuit has close corners, under any of the knob settings
InitCorners ==
    /\ StartRich
    /\ corner_window_m \in Windows
    /\ complex_span_m \in Spans
    /\ \E t \in ThresholdConfigs :
        /\ slow_thr_kph = t.slow
        /\ medium_thr_kph = t.medium
        /\ hairpin_thr_kph = t.hairpin
    /\ topN = [is_none |-> FALSE, rows |-> <<[year |-> 2018, name |-> "A"]>>]
    /\ \E k \in 1..MaxSamples : \E dist \in DistLists(k) :
       \E speed \in SpeedLists(k) : \E corners \in CloseCornerLists :
         provider = <<CarData([dist |-> dist, speed |-> speed, has_drs |-> FALSE,
                               DRS |-> <<>>, corners |-> corners,
                               drs_zones |-> <<>>])>>

InitRich == InitLap \/ InitRaces \/ InitCorners

SpecRich == InitRich /\ [][NextRich]_vars

\* the runs that select races and the runs that analyse a selection
InitSelect == InitTop \/ InitRaces

NextSelect == TopRacesForDriver \/ NextRich

SpecSelect == InitSelect /\ [][NextSelect]_vars

\* the runs that read the dictionary of tables
InitTables == InitTop \/ InitBuild

NextTables == TopRacesForDriver \/ BuildDriverTable

SpecTables == InitTables /\ [][NextTables]_vars

-----------------------------------------------------------------------------
(* The kinds of run together.                                              *)

Init == InitParse \/ InitFormat \/ InitGaps \/ InitTop \/ InitBuild \/ InitRich

Next ==
    \/ ConvertTime
    \/ ConvertSeconds
    \/ AddPositionGaps
    \/ TopRacesForDriver
    \/ BuildDriverTable
    \/ NextRich

Spec == Init /\ [][Next]_vars

-----------------------------------------------------------------------------
(* Claims about top_races_for_driver (checked under SpecTop).              *)

\* where a row stands in the table before sorting
IndexInScored(r) == CHOOSE k \in 1..Len(scored) : scored[k] = r

\* C6: the result is ordered by score descending, and rows of equal score keep
\* the relative order they had in the table before sorting.
C6_SortIsStable ==
    pc = "topped" =>
        /\ \A i \in 1..(Len(ranked) - 1) : DecLe(ranked[i + 1].score, ranked[i].score)
        /\ \A i, j \in 1..Len(ranked) :
              (i < j /\ ranked[i].score = ranked[j].score) =>
                  IndexInScored(ranked[i]) < IndexInScored(ranked[j])

\* the drivers whose forename and surname make the requested name
NamedDrivers ==
    { dfs.drivers[i].driverId : i \in
        { k \in 1..Len(dfs.drivers) :
            dfs.drivers[k].forename \o <<" ">> \o dfs.drivers[k].surname
                = args.driver_name } }

\* the result rows of the selected driver that pass the year and wins filters
PoolRows ==
    { i \in 1..Len(dfs.results) :
        /\ dfs.results[i].driverId \in NamedDrivers
        /\ \E k \in 1..Len(dfs.races) :
              /\ dfs.races[k].raceId = dfs.results[i].raceId
              /\ dfs.races[k].year >= args.min_year
        /\ args.wins_only => dfs.results[i].positionOrder = 1 }

Fixed(d) == d.n * Pow10(4 - d.f)

\* no result row of the same race is classified behind row r
LastOfRace(r) ==
    \A i \in 1..Len(dfs.results) :
        dfs.results[i].raceId = r.raceId =>
            dfs.results[i].positionOrder <= r.positionOrder

\* C8: score = 4.0*positions_gained + 1.2*gap_to_next_s - 2.0*gap_to_winner_s
\* - 1.0*fastestLapTime_s + 1.0*fastestLapSpeed + 1.0*status_weight
\* + 1.0*wet_bonus with every NaN input replaced by 0, so the score is never
\* NaN (the last classified entry scores with gap_to_next_s = 0).
C8_ScoreIsWeightedSum ==
    pc = "topped" =>
        \A i \in 1..Len(scored) :
            LET r == scored[i]
            IN  /\ ~IsNull(r.score)
                /\ 10 * Fixed(r.score) =
                        40 * Fixed(r.positions_gained)
                      + 12 * Fixed(r.gap_to_next_s)
                      - 20 * Fixed(r.gap_to_winner_s)
                      - 10 * Fixed(r.fastestLapTime_s)
                      + 10 * Fixed(r.fastestLapSpeed)
                      + 100000 * r.status_weight
                      + 100000 * r.wet_bonus
                /\ LastOfRace(r) => r.gap_to_next_s = DecInt(0)
                /\ IsNull(r.grid) => r.positions_gained = DecInt(0)
                /\ r.fastestLapTime = T_None => r.fastestLapTime_s = DecInt(0)

C8_Witness ==
    /\ pc = "topped"
    /\ \E i, j \in 1..Len(scored) :
        /\ LastOfRace(scored[i])
        /\ IsNull(scored[i].grid)
        /\ scored[i].gap_to_winner_s = Dec(35, 1)
        /\ scored[i].score = Dec(-6, 0)
        /\ ~LastOfRace(scored[j])
        /\ scored[j].gap_to_next_s = Dec(12, 1)
        /\ scored[j].wet_bonus = 30

-----------------------------------------------------------------------------
(* Claims about build_driver_table (SpecBuild).                            *)

\* the rows of every table returned so far
BuiltRows == UNION { {t[i] : i \in 1..Len(t)} : t \in {built[k] : k \in 1..Len(built)} }

\* C11: calling build_driver_table again on the same dictionary of tables,
\* with the same min_year and wins_only, returns an identical table (same rows
\* in the same order, same columns, same values).
C11_BuildIsRepeatable ==
    \A i, j \in 1..Len(built) : built[i] = built[j]

C11_Witness ==
    /\ Len(built) >= 2
    /\ Len(built[2]) >= 2
    /\ \E i \in 1..Len(built[2]) : built[2][i].driver_name = <<"L", " ", "H">>

\* the bonus the thresholds give: p taken as p.n / 10^p.f, missing p as 0
BonusFor(p) ==
    IF IsNull(p) THEN 0
    ELSE LET one == Pow10(p.f)
         IN  IF p.n < 5 * one THEN 0
             ELSE IF p.n < 10 * one THEN 10
             ELSE IF p.n < 20 * one THEN 30
             ELSE IF p.n < 50 * one THEN 80
             ELSE 100

\* C12: wet_bonus depends on the precipitation p only: 0 for p < 5, 10 for
\* 5 <= p < 10, 30 for 10 <= p < 20, 80 for 20 <= p < 50, 100 for p >= 50 and
\* 0 for a missing p; it is one of 0, 10, 30, 80, 100; 15 gives 30 and a
\* missing p gives 0.
C12_WetBonusByThresholds ==
    \A r \in BuiltRows :
        /\ r.wet_bonus = BonusFor(r.Precipitation)
        /\ r.wet_bonus \in {0, 10, 30, 80, 100}
        /\ r.Precipitation = DecInt(15) => r.wet_bonus = 30
        /\ IsNull(r.Precipitation) => r.wet_bonus = 0

C12_Witness ==
    /\ \E r \in BuiltRows : r.Precipitation = DecInt(20) /\ r.wet_bonus = 80
    /\ \E r \in BuiltRows : IsNull(r.Precipitation) /\ r.wet_bonus = 0

\* C13: status_weight is 0 exactly when the statusId is one of the DNF codes
\* and 1 otherwise, a missing statusId included; without a status table it
\* is 1 on every row.
C13_StatusWeightByDnfSet ==
    \A r \in BuiltRows :
        /\ r.status_weight =
              (IF dfs.status # <<>> /\ ~IsNull(r.statusId) /\ r.statusId.f = 0
                    /\ r.statusId.n \in dnf_ids
               THEN 0 ELSE 1)
        /\ dfs.status = <<>> => r.status_weight = 1

\* the identity and the gaps of the rows of a table
GapCells(t) ==
    [i \in 1..Len(t) |->
        <<t[i].raceId, t[i].driverId, t[i].gap_to_winner_s, t[i].gap_to_next_s>>]

\* C14: with wins_only the returned rows are the rows with positionOrder 1,
\* and their gap_to_winner_s and gap_to_next_s are the values computed over
\* the full field of the race: gap_to_next_s is the gap to the second-placed
\* entry, not null because the winner is the only row left.
C14_WinsOnlyAfterGaps ==
    (args.wins_only /\ built # <<>>) =>
        LET t == built[Len(built)]
        IN  /\ \A i \in 1..Len(t) : t[i].positionOrder = 1
            /\ GapCells(t) = GapCells(SelectSeq(field, LAMBDA r : r.positionOrder = 1))
            /\ \A i \in 1..Len(t) : \A j \in 1..Len(field) :
                  ( /\ field[j].raceId = t[i].raceId
                    /\ field[j].positionOrder = 2
                    /\ ~IsNull(field[j].gap_to_winner_s) )
                  => /\ ~IsNull(t[i].gap_to_next_s)
                     /\ t[i].gap_to_next_s =
                           DecSub(field[j].gap_to_winner_s, t[i].gap_to_winner_s)

C14_Witness ==
    /\ args.wins_only
    /\ built # <<>>
    /\ Len(field) >= 2
    /\ \E i \in 1..Len(built[1]) :
          /\ built[1][i].raceId = 1
          /\ built[1][i].gap_to_winner_s = DecInt(0)
          /\ built[1][i].gap_to_next_s = Dec(12, 1)

-----------------------------------------------------------------------------
(* Claims about analyze_topN_rich (SpecRich, SpecSelect).                  *)

\* the rows of topN that got a row_out so far
Analysed ==
    { j \in 1..Len(topN.rows) :
        /\ j < idx
        /\ topN.rows[j].year >= CutoffYear
        /\ provider[j].kind = "car_data"
        /\ provider[j].lap.dist # <<>> }

\* the lap whose masks seg holds
SegLap == provider[CHOOSE j \in Analysed : \A k \in Analysed : k <= j].lap

Samples == 1..Len(seg.dist)

\* |x - y| for whole-number decimals
AbsDiff(x, y) == IF x.n >= y.n THEN x.n - y.n ELSE y.n - x.n

IsNumber(c) == ~IsNull(c) /\ ~IsBad(c)

\* C15: at every sample of an analysed lap the straight mask is the negation
\* of the corner mask, and the corner mask is the union over the corners of
\* |distance - apex distance| <= corner window.
C15_StraightIsNotCorner ==
    Analysed # {} =>
        \A i \in Samples :
            /\ seg.is_straight[i] = ~seg.is_corner[i]
            /\ seg.is_corner[i] =
                 (\E k \in 1..Len(SegLap.corners) :
                     /\ IsNumber(SegLap.corners[k])
                     /\ AbsDiff(seg.dist[i], SegLap.corners[k]) <= corner_window_m)

C15_Witness ==
    /\ Analysed # {}
    /\ corner_window_m = 1
    /\ \E i, j \in Samples :
         /\ seg.is_corner[i]
         /\ \E k \in 1..Len(SegLap.corners) :
               /\ IsNumber(SegLap.corners[k])
               /\ AbsDiff(seg.dist[i], SegLap.corners[k]) = 1
         /\ seg.is_straight[j]

\* a sample lies in a DRS zone, whichever way round the zone is given
InZone(i) ==
    \E k \in 1..Len(SegLap.drs_zones) :
        LET a == SegLap.drs_zones[k].a
            b == SegLap.drs_zones[k].b
        IN  /\ ~IsNull(a)
            /\ ~IsNull(b)
            /\ \/ a.n <= seg.dist[i].n /\ seg.dist[i].n <= b.n
               \/ b.n <= seg.dist[i].n /\ seg.dist[i].n <= a.n

LiveDrs == SegLap.has_drs /\ \E i \in Samples : ~IsNull(SegLap.DRS[i])

\* C16: with a live DRS column and with DRS taken from the zones, the DRS
\* and the non-DRS masks are disjoint, both inside the straight mask, and
\* together the straight mask; a zone [a, b] with a > b marks the samples
\* that [b, a] marks.
C16_DrsSplitsStraight ==
    Analysed # {} =>
        \A i \in Samples :
            /\ ~(seg.is_drs[i] /\ seg.is_nondrs[i])
            /\ seg.is_drs[i] => seg.is_straight[i]
            /\ seg.is_nondrs[i] => seg.is_straight[i]
            /\ seg.is_straight[i] = (seg.is_drs[i] \/ seg.is_nondrs[i])
            /\ LiveDrs =>
                 seg.is_drs[i] =
                    ( /\ seg.is_straight[i]
                      /\ ~IsNull(SegLap.DRS[i])
                      /\ SegLap.DRS[i].n > 0 )
            /\ ~LiveDrs => seg.is_drs[i] = (seg.is_straight[i] /\ InZone(i))

C16_Witness ==
    /\ Analysed # {}
    /\ ~LiveDrs
    /\ \E k \in 1..Len(SegLap.drs_zones) :
         /\ IsNumber(SegLap.drs_zones[k].a)
         /\ IsNumber(SegLap.drs_zones[k].b)
         /\ SegLap.drs_zones[k].a.n > SegLap.drs_zones[k].b.n
    /\ \E i, j \in Samples : seg.is_drs[i] /\ seg.is_nondrs[j]

\* C17: coverage(DRS) + coverage(nonDRS) <= coverage(straight) on every
\* analysed lap, with equality when the two masks partition the straight
\* samples.
C17_CoverageSumWithinStraight ==
    Analysed # {} =>
        LET cd == coverage(seg.dist, seg.is_drs)
            cn == coverage(seg.dist, seg.is_nondrs)
            cs == coverage(seg.dist, seg.is_straight)
        IN  /\ FracLe(FracAdd(cd, cn), cs)
            /\ (\A i \in Samples :
                  /\ seg.is_straight[i] = (seg.is_drs[i] \/ seg.is_nondrs[i])
                  /\ ~(seg.is_drs[i] /\ seg.is_nondrs[i]))
               => FracAdd(cd, cn) = cs

\* C18: whatever the races of a non-empty list come to (load failed, no
\* laps, no car data, empty car data, year before the cutoff), all of them
\* skipped or failed included, the call returns a pair of tables and raises
\* nothing.
C18_NeverFailsWholeQuery ==
    /\ pc # "raised"
    /\ result.raised = ""

-----------------------------------------------------------------------------
(* Claims about convert_seconds_to_time_str (SpecFormat).                  *)

\* the number of milliseconds of a duration of at most three decimals
MillisOf(x) == x.n * Pow10(3 - x.f)

\* C20: a duration that is not null is written 'M:SS.mmm', the seconds in two
\* digits with a leading zero and three decimals (63.456 gives '1:03.456');
\* null gives the empty text.
C20_FormatsMinutesSecondsMillis ==
    pc = "formatted" =>
        /\ IsNull(seconds) => time_str = <<>>
        /\ ~IsNull(seconds) =>
             time_str = NatStr(MillisOf(seconds) \div 60000) \o <<":">>
                          \o Pad((MillisOf(seconds) % 60000) \div 1000, 2) \o <<".">>
                          \o Pad(MillisOf(seconds) % 1000, 3)
        /\ seconds = Dec(63456, 3) =>
             time_str = <<"1", ":", "0", "3", ".", "4", "5", "6">>

-----------------------------------------------------------------------------
(* Claims about the tables read and returned (SpecTables,                  *)
(* SpecGapsAnyDrivers).                                                    *)

\* C24: build_driver_table and top_races_for_driver leave the tables of the
\* input dictionary as they were: drivers, results, races, status and weather
\* have the same columns and the same rows after a call as before it.
C24_InputTablesNotModified == [][dfs' = dfs]_vars

\* C25: add_position_gaps returns one row for each row of its argument, in
\* the argument's order, each with the gap computed for its own race and
\* finishing position, also when a (raceId, driverId) pair occurs in more
\* than one row.
C25_OneRowPerResultRow ==
    pc = "gapped" =>
        /\ Len(gaps) = Len(df_results)
        /\ \A i \in 1..Len(df_results) :
            /\ i <= Len(gaps)
            /\ gaps[i].raceId = df_results[i].raceId
            /\ gaps[i].driverId = df_results[i].driverId
            /\ gaps[i].positionOrder = df_results[i].positionOrder
            /\ gaps[i].gap_to_winner_s =
                 gap_to_win(df_results[i],
                            WinMs(SortByPosition(
                                SelectSeq(df_results,
                                    LAMBDA r : r.raceId = df_results[i].raceId))))

-----------------------------------------------------------------------------
(* Further claims about analyze_topN_rich (SpecRich).                      *)

\* the races of topN that have telemetry: not before the cutoff year, and
\* loaded with car data that is not empty
WithTelemetry ==
    { j \in 1..Len(topN.rows) :
        /\ topN.rows[j].year >= CutoffYear
        /\ provider[j].kind = "car_data"
        /\ provider[j].lap.dist # <<>> }

RowsFor(year, gp) ==
    { i \in 1..Len(result.per_race) :
        result.per_race[i].year = year /\ result.per_race[i].gp = gp }

RacesFor(year, gp) ==
    { j \in WithTelemetry : topN.rows[j].year = year /\ topN.rows[j].name = gp }

\* C23: once a list of races has been processed, the per-race table holds
\* one row for each race with telemetry and no other row, wherever in the
\* list the skipped and the failed races are.
C23_OneRowPerRaceWithTelemetry ==
    (pc \in {"returned", "raised"} /\ topN.rows # <<>>) =>
        /\ pc = "returned"
        /\ Len(result.per_race) = Cardinality(WithTelemetry)
        /\ \A r \in RaceRows :
             Cardinality(RowsFor(r.year, r.name)) = Cardinality(RacesFor(r.year, r.name))

\* the corners of the analysed lap whose Distance is a number and whose
\* window holds a sample, by their place in the list
NearCorners ==
    { k \in 1..Len(SegLap.corners) :
        /\ IsNumber(SegLap.corners[k])
        /\ \E i \in Samples : AbsDiff(seg.dist[i], SegLap.corners[k]) <= corner_window_m }

\* the corners within complex_span_m after corner a, a itself included
CloseAfter(a) ==
    { b \in NearCorners :
        /\ SegLap.corners[a].n <= SegLap.corners[b].n
        /\ SegLap.corners[b].n - SegLap.corners[a].n <= complex_span_m }

LastOf(G) == CHOOSE b \in G : \A c \in G : SegLap.corners[c].n <= SegLap.corners[b].n

\* C21 (as the code has it): a sample is in the corner-complex mask exactly
\* when some corner a has at least three corners within complex_span_m after
\* it, a included, and the sample lies between a's apex less the corner
\* window and the last of those apexes plus the corner window; every corner
\* starts a group of its own, whether or not an earlier group holds it.
C21_ComplexIsEveryCloseGroup ==
    Analysed # {} =>
        \A i \in Samples :
            seg.is_complex[i] <=>
                \E a \in NearCorners :
                    /\ Cardinality(CloseAfter(a)) >= 3
                    /\ SegLap.corners[a].n - corner_window_m <= seg.dist[i].n
                    /\ seg.dist[i].n <= SegLap.corners[LastOf(CloseAfter(a))].n
                                          + corner_window_m

\* the mask that grouping without overlap gives for the analysed lap
GreedyComplex ==
    ComplexFromGreedy(seg.dist, Dists(seg.apex_by_corner), 1, corner_window_m,
                      AllFalse(seg.dist))

\* a lap where a second group, begun inside the first, marks a sample that
\* the first group, which marks another, does not reach
C21_Witness ==
    /\ Analysed # {}
    /\ \E i \in Samples : seg.is_complex[i] /\ ~GreedyComplex[i]
    /\ \E i \in Samples : seg.is_complex[i] /\ GreedyComplex[i]

\* C21 (as stated): the corner-complex mask is the one of greedy grouping,
\* where the next group starts after the last corner of the previous group.
C21_GreedyGrouping == Analysed # {} => seg.is_complex = GreedyComplex

Occurrences(masks, k) == Cardinality({n \in 1..Len(masks) : masks[n] = k})

\* C22: under every setting of the thresholds each corner in the hairpin
\* list is in the slow list, so a sample of the hairpin mask is a sample of
\* the slow mask; and each corner with a sample in its window is in exactly
\* one of the slow, medium and high lists.
C22_HairpinWithinSlow ==
    Analysed # {} =>
        /\ \A n \in 1..Len(seg.hairpin_masks) :
             Occurrences(seg.slow_masks, seg.hairpin_masks[n]) > 0
        /\ \A i \in Samples : seg.is_hairpin[i] => seg.is_slow[i]
        /\ \A k \in NearCorners :
             Occurrences(seg.slow_masks, k - 1) + Occurrences(seg.med_masks, k - 1)
                 + Occurrences(seg.high_masks, k - 1) = 1

=============================================================================
